---- MODULE Spec2Model ----
(***************************************************************************)
(* Model of the learning-management registry of final-project-oop.cpp:     *)
(* the Validator predicates, the Course entity, the LMSManager registry,   *)
(* the global user list and the menu-driven role operations of main().     *)
(*                                                                         *)
(* A C++ string is a sequence of one-character strings, so that find,      *)
(* rfind, substr and length are computed as the code computes them.        *)
(* A vector is a sequence; the 0-based C++ index i is position i + 1.      *)
(***************************************************************************)
EXTENDS Integers, Sequences, FiniteSets, TLC

\* ------------------------------------------------------------------ bounds
MaxCourses == 2
MaxUsers == 5
MaxContents == 2
MaxGrades == 2
MaxEmailLen == 6

\* ------------------------------------------------------------ std::string
\* string::npos, the largest size_t: larger than every length of the model.
npos == 2147483647

\* s.find(ch): 0-based position of the first ch, or npos.
find(s, ch) ==
    IF \E i \in 1..Len(s) : s[i] = ch
    THEN (CHOOSE i \in 1..Len(s) : s[i] = ch /\ \A j \in 1..(i - 1) : s[j] # ch) - 1
    ELSE npos

\* s.rfind(ch): 0-based position of the last ch, or npos.
rfind(s, ch) ==
    IF \E i \in 1..Len(s) : s[i] = ch
    THEN (CHOOSE i \in 1..Len(s) : s[i] = ch /\ \A j \in (i + 1)..Len(s) : s[j] # ch) - 1
    ELSE npos

\* s.length() - 1 in size_t arithmetic: 0 - 1 wraps to the largest size_t.
lengthMinus1(s) == IF Len(s) = 0 THEN npos ELSE Len(s) - 1

\* s.substr(0, n): the first n characters, the whole string when n is npos.
substr0(s, n) == IF n >= Len(s) THEN s ELSE SubSeq(s, 1, n)

\* v.erase(v.begin() + index) for a 0-based index.
erase(v, index) == SubSeq(v, 1, index) \o SubSeq(v, index + 2, Len(v))

\* A string of n characters 'x'.
Filled(n) == [i \in 1..n |-> "x"]

\* ---------------------------------------------------------------- Validator
\* Mutant of isValidEmail: the first '.' is taken (find) where the code
\* takes the last (rfind).
isValidEmail_FirstDot(email) ==
    LET atPos == find(email, "@")
        dotPos == find(email, ".")
    IN  /\ atPos # npos
        /\ dotPos # npos
        /\ atPos < dotPos
        /\ atPos > 0
        /\ dotPos < lengthMinus1(email)

isValidEmail(email) ==
    LET atPos == find(email, "@")
        dotPos == rfind(email, ".")
    IN  /\ atPos # npos
        /\ dotPos # npos
        /\ atPos < dotPos
        /\ atPos > 0
        /\ dotPos < lengthMinus1(email)

isValidGrade(grade) == grade >= 0 /\ grade <= 100

isValidIndex(index, maxSize) == index >= 0 /\ index < maxSize

isValidString(str) == Len(str) # 0 /\ Len(str) <= 100

\* One read of getValidatedIntInput: the value is returned only when it lies
\* in [min, max]; any other value makes the prompt repeat.
getValidatedIntInput(input, min, max) == input >= min /\ input <= max

\* ------------------------------------------------------------------ errors
\* An exception: its kind and its what() text. ValidationException is of
\* kind "ValidationError"; InvalidCourseIndexException and std::out_of_range
\* are of kind "IndexError".
NoError == [kind |-> "none", what |-> ""]

ValidationException(msg) == [kind |-> "ValidationError", what |-> msg]

InvalidCourseIndexException == [kind |-> "IndexError", what |-> "Invalid course index!"]

out_of_range(msg) == [kind |-> "IndexError", what |-> msg]

\* Not an exception: the operation printed msg and returned early.
Refused(msg) == [kind |-> "none", what |-> msg]

\* Not an exception: a prompt rejected what was typed and asks again.
Reprompt == [kind |-> "reprompt", what |-> ""]

\* The result of a call: the value it leaves behind and the exception thrown.
Ret(v) == [val |-> v, err |-> NoError]
Throw(v, e) == [val |-> v, err |-> e]

\* ------------------------------------------------------------------ Course
NoCourse ==
    [courseName |-> <<>>, teacherEmail |-> <<>>, contents |-> <<>>,
     grades |-> <<>>, enrolledStudents |-> <<>>]

\* Mutant of Course_new: the teacher email is stored unvalidated.
Course_new_NoEmailCheck(courseName, teacherEmail) ==
    IF ~isValidString(courseName)
    THEN Throw(NoCourse, ValidationException("Invalid course name"))
    ELSE Ret([courseName |-> courseName, teacherEmail |-> teacherEmail,
              contents |-> <<>>, grades |-> <<>>, enrolledStudents |-> <<>>])

\* Course::Course(courseName, teacherEmail)
Course_new(courseName, teacherEmail) ==
    IF ~isValidString(courseName)
    THEN Throw(NoCourse, ValidationException("Invalid course name"))
    ELSE IF ~isValidEmail(teacherEmail)
         THEN Throw(NoCourse, ValidationException("Invalid teacher email"))
    ELSE Ret([courseName |-> courseName, teacherEmail |-> teacherEmail,
              contents |-> <<>>, grades |-> <<>>, enrolledStudents |-> <<>>])

\* Course::addContent(content)
Course_addContent(c, content) ==
    IF ~isValidString(content)
    THEN Throw(c, ValidationException("Invalid content"))
    ELSE Ret([c EXCEPT !.contents = Append(@, content)])

\* Mutant of Course_removeContent: the bound test is index <= size.
Course_removeContent_OffByOne(c, index) ==
    IF ~(index >= 0 /\ index <= Len(c.contents))
    THEN Throw(c, InvalidCourseIndexException)
    ELSE Ret([c EXCEPT !.contents = erase(@, index)])

\* Course::removeContent(index)
Course_removeContent(c, index) ==
    IF ~isValidIndex(index, Len(c.contents))
    THEN Throw(c, InvalidCourseIndexException)
    ELSE Ret([c EXCEPT !.contents = erase(@, index)])

\* Mutant of Course_addGrade: a student's earlier grade is overwritten.
Course_addGrade_Overwrite(c, studentEmail, grade) ==
    IF ~isValidEmail(studentEmail)
    THEN Throw(c, ValidationException("Invalid student email"))
    ELSE IF ~isValidGrade(grade)
         THEN Throw(c, ValidationException("Invalid grade"))
    ELSE IF \E i \in 1..Len(c.grades) : c.grades[i].first = studentEmail
         THEN Ret([c EXCEPT !.grades =
                      [i \in 1..Len(@) |->
                          IF @[i].first = studentEmail
                          THEN [first |-> studentEmail, second |-> grade]
                          ELSE @[i]]])
    ELSE Ret([c EXCEPT !.grades = Append(@, [first |-> studentEmail, second |-> grade])])

\* Course::addGrade(studentEmail, grade)
Course_addGrade(c, studentEmail, grade) ==
    IF ~isValidEmail(studentEmail)
    THEN Throw(c, ValidationException("Invalid student email"))
    ELSE IF ~isValidGrade(grade)
         THEN Throw(c, ValidationException("Invalid grade"))
    ELSE Ret([c EXCEPT !.grades = Append(@, [first |-> studentEmail, second |-> grade])])

\* Mutant of Course_enrollStudent: the scan for the email is missing.
Course_enrollStudent_NoDupCheck(c, studentEmail) ==
    IF ~isValidEmail(studentEmail)
    THEN Throw(c, ValidationException("Invalid student email"))
    ELSE Ret([c EXCEPT !.enrolledStudents = Append(@, studentEmail)])

\* Course::enrollStudent(studentEmail)
Course_enrollStudent(c, studentEmail) ==
    IF ~isValidEmail(studentEmail)
    THEN Throw(c, ValidationException("Invalid student email"))
    ELSE IF \E i \in 1..Len(c.enrolledStudents) : c.enrolledStudents[i] = studentEmail
         THEN Throw(c, ValidationException("Student already enrolled"))
    ELSE Ret([c EXCEPT !.enrolledStudents = Append(@, studentEmail)])

\* Mutant of Course_removeStudent: the last email is moved into the hole
\* and the vector is shortened by one (swap and pop).
Course_removeStudent_SwapPop(c, studentEmail) ==
    IF \E i \in 1..Len(c.enrolledStudents) : c.enrolledStudents[i] = studentEmail
    THEN LET v == c.enrolledStudents
             swapped == [v EXCEPT ![find(v, studentEmail) + 1] = v[Len(v)]]
         IN  Ret([c EXCEPT !.enrolledStudents = SubSeq(swapped, 1, Len(v) - 1)])
    ELSE Throw(c, ValidationException("Student not found"))

\* Course::removeStudent(studentEmail): erases the first match.
Course_removeStudent(c, studentEmail) ==
    IF \E i \in 1..Len(c.enrolledStudents) : c.enrolledStudents[i] = studentEmail
    THEN Ret([c EXCEPT !.enrolledStudents = erase(@, find(@, studentEmail))])
    ELSE Throw(c, ValidationException("Student not found"))

\* -------------------------------------------------------------- LMSManager
\* LMSManager::addCourse(course)
LMSManager_addCourse(cs, course) == Append(cs, course)

\* LMSManager::getCourse(index)
LMSManager_getCourse(cs, index) ==
    IF ~isValidIndex(index, Len(cs))
    THEN Throw(NoCourse, InvalidCourseIndexException)
    ELSE Ret(cs[index + 1])

\* Mutant of LMSManager_removeCourse: the last course is removed
\* (pop_back) whatever the index.
LMSManager_removeCourse_PopBack(cs, index) ==
    IF ~isValidIndex(index, Len(cs))
    THEN Throw(cs, InvalidCourseIndexException)
    ELSE Ret(SubSeq(cs, 1, Len(cs) - 1))

\* Mutant of LMSManager_removeCourse: the index is not validated.
LMSManager_removeCourse_NoCheck(cs, index) == Ret(erase(cs, index))

\* LMSManager::removeCourse(index)
LMSManager_removeCourse(cs, index) ==
    IF ~isValidIndex(index, Len(cs))
    THEN Throw(cs, InvalidCourseIndexException)
    ELSE Ret(erase(cs, index))

\* -------------------------------------------------------------- seed data
Mathematics ==
    <<"M", "a", "t", "h", "e", "m", "a", "t", "i", "c", "s">>
Physics ==
    <<"P", "h", "y", "s", "i", "c", "s">>
teacher1Email ==
    <<"t", "e", "a", "c", "h", "e", "r", "1", "@", "e", "x", "a", "m", "p", "l", "e", ".", "c", "o", "m">>
teacher2Email ==
    <<"t", "e", "a", "c", "h", "e", "r", "2", "@", "e", "x", "a", "m", "p", "l", "e", ".", "c", "o", "m">>
admin1Email ==
    <<"a", "d", "m", "i", "n", "1", "@", "e", "x", "a", "m", "p", "l", "e", ".", "c", "o", "m">>
IntroductionToAlgebra ==
    <<"I", "n", "t", "r", "o", "d", "u", "c", "t", "i", "o", "n", " ", "t", "o", " ", "A", "l", "g", "e", "b", "r", "a">>
AdvancedCalculus ==
    <<"A", "d", "v", "a", "n", "c", "e", "d", " ", "C", "a", "l", "c", "u", "l", "u", "s">>
NewtonsLaws ==
    <<"N", "e", "w", "t", "o", "n", "'", "s", " ", "L", "a", "w", "s">>
Thermodynamics ==
    <<"T", "h", "e", "r", "m", "o", "d", "y", "n", "a", "m", "i", "c", "s">>
admin1 ==
    <<"a", "d", "m", "i", "n", "1">>
teacher1 ==
    <<"t", "e", "a", "c", "h", "e", "r", "1">>
teacher2 ==
    <<"t", "e", "a", "c", "h", "e", "r", "2">>

\* A user: the three fields of User and the concrete class of the object.
NewUser(role, username, email, password) ==
    [role |-> role, username |-> username, email |-> email, password |-> password]

\* main(): the two seed courses, each built and given two contents before
\* it is added to the registry.
course1 ==
    Course_addContent(
        Course_addContent(Course_new(Mathematics, teacher1Email).val,
                          IntroductionToAlgebra).val,
        AdvancedCalculus).val

course2 ==
    Course_addContent(
        Course_addContent(Course_new(Physics, teacher2Email).val,
                          NewtonsLaws).val,
        Thermodynamics).val

SeedCourses == LMSManager_addCourse(LMSManager_addCourse(<<>>, course1), course2)

\* main(): the three seed users.
SeedUsers ==
    << NewUser("Admin", admin1, admin1Email, "adminpass"),
       NewUser("Teacher", teacher1, teacher1Email, "teacherpass"),
       NewUser("Teacher", teacher2, teacher2Email, "teacherpass") >>

\* ------------------------------------------------------------------ inputs
Chemistry ==
    <<"C", "h", "e", "m", "i", "s", "t", "r", "y">>
Quiz ==
    <<"Q", "u", "i", "z">>
studentEmailA ==
    <<"a", "@", "b", ".", "c", "o">>
studentEmailB ==
    <<"c", "@", "d", ".", "i", "o">>
notAnEmail ==
    <<"n", "o", "t", "-", "a", "n", "-", "e", "m", "a", "i", "l">>
NewTeacher ==
    <<"N", "e", "w", "T", "e", "a", "c", "h", "e", "r">>
Zero ==
    <<"0">>

\* Tokens read by cin >> email: never empty.
EmailInputs ==
    {admin1Email, teacher1Email, teacher2Email, studentEmailA, notAnEmail}

\* Tokens typed where a student's email is asked for: an unregistered
\* address, a registered one and a malformed one.
StudentEmailInputs == {studentEmailA, teacher1Email, notAnEmail}

\* Lines read by getline: may be empty, may exceed 100 characters.
NameInputs == {Chemistry, <<>>, Filled(101)}
ContentInputs == {Quiz, <<>>, Filled(101)}

PasswordInputs == {"adminpass", "teacherpass", "pw"}
NewPasswordInputs == {"pw"}
YesNo == {"y", "n"}

\* Numbers read by cin >> int, 1-based as the menus show them.
CourseIndexInputs == 0..(MaxCourses + 1)
ContentIndexInputs == 0..(MaxContents + 1)
GradeInputs == {-1, 0, 85, 100, 101, 150}
TypedGrades == {-1, 85, 101}

\* ------------------------------------------------------------------- state
VARIABLES
    courses,    \* LMSManager::courses
    users,      \* the global vector<UserPtr> users
    pc,         \* where main() is: login, a menu, the role question, the end
    me,         \* position in users of the logged-in user, 0 when none
    last,       \* the last operation: its name and outcome
    typed       \* the string handed to Validator::isValidEmail when the
                \* function is exercised on its own; empty in the program

vars == <<courses, users, pc, me, last, typed>>

\* op: the operation; err: the exception it raised (caught or not), or
\* Reprompt when a prompt rejected what was typed; done: it ran to its
\* last statement; shown: the grade Student::viewGrades printed.
Last(op, err, done, shown) ==
    [op |-> op, err |-> err, done |-> done, shown |-> shown]

Init ==
    /\ courses = SeedCourses
    /\ users = SeedUsers
    /\ pc = "login"
    /\ me = 0
    /\ last = Last("main", NoError, TRUE, 0)
    /\ typed = <<>>

\* ------------------------------------------------------- Admin operations
\* The outcome of a role operation: the registry and the user list it
\* leaves, the exception raised inside it, whether it ran to its end, and
\* whether the exception left the operation uncaught.
Outcome(cs, us, err, done, fatal) ==
    [courses |-> cs, users |-> us, err |-> err, done |-> done, fatal |-> fatal]

\* Mutant of studentExists: the scan of the user list finds nobody.
studentExists_Never(us, studentEmail) == FALSE

\* Admin::enrollStudent, lines 413-420: some user has this email.
studentExists(us, studentEmail) ==
    \E i \in 1..Len(us) : us[i].email = studentEmail

\* Admin::enrollStudent with the course index, email and password typed.
\* A rejected index or a malformed email makes the prompt repeat with the
\* state as it was: that read is the "reprompt" outcome.
Admin_enrollStudent(cs, us, userIndex, studentEmail, studentPassword) ==
    IF Len(cs) = 0
    THEN Outcome(cs, us, Refused("There are no courses available for enrollment."), FALSE, FALSE)
    ELSE IF ~getValidatedIntInput(userIndex, 1, Len(cs))
         THEN Outcome(cs, us, Reprompt, FALSE, FALSE)
    ELSE LET got == LMSManager_getCourse(cs, userIndex - 1) IN
         IF got.err # NoError THEN Outcome(cs, us, got.err, FALSE, FALSE)
         ELSE IF ~isValidEmail(studentEmail)
              THEN Outcome(cs, us, Reprompt, FALSE, FALSE)
         ELSE IF studentExists(us, studentEmail)
              THEN Outcome(cs, us, Refused("Student with this email already exists. Cannot create a duplicate account."), FALSE, FALSE)
         ELSE LET newStudent ==
                      NewUser("Student",
                              substr0(studentEmail, find(studentEmail, "@")),
                              studentEmail, studentPassword)
                  us2 == Append(us, newStudent)
                  r == Course_enrollStudent(got.val, studentEmail)
              IN  IF r.err # NoError THEN Outcome(cs, us2, r.err, FALSE, FALSE)
                  ELSE Outcome([cs EXCEPT ![userIndex] = r.val], us2,
                               NoError, TRUE, FALSE)

\* Mutant of Admin_removeStudent: the user record of the removed student is
\* erased from the user list too.
Admin_removeStudent_DropsUser(cs, us, userIndex, studentEmail) ==
    LET got == LMSManager_getCourse(cs, userIndex - 1) IN
    IF got.err # NoError THEN Outcome(cs, us, got.err, FALSE, FALSE)
    ELSE LET r == Course_removeStudent(got.val, studentEmail) IN
         IF r.err # NoError THEN Outcome(cs, us, r.err, FALSE, FALSE)
         ELSE Outcome([cs EXCEPT ![userIndex] = r.val],
                      SelectSeq(us, LAMBDA u : u.email # studentEmail),
                      NoError, TRUE, FALSE)

\* Admin::removeStudent with the course index and the email typed.
Admin_removeStudent(cs, us, userIndex, studentEmail) ==
    IF Len(cs) = 0
    THEN Outcome(cs, us, Refused("There are no courses available."), FALSE, FALSE)
    ELSE LET systemIndex == userIndex - 1
             got == LMSManager_getCourse(cs, systemIndex)
         IN  IF got.err # NoError THEN Outcome(cs, us, got.err, FALSE, FALSE)
             ELSE IF Len(got.val.enrolledStudents) = 0
                  THEN Outcome(cs, us, Refused("There is no student here."), FALSE, FALSE)
             ELSE LET r == Course_removeStudent(got.val, studentEmail) IN
                  IF r.err # NoError THEN Outcome(cs, us, r.err, FALSE, FALSE)
                  ELSE Outcome([cs EXCEPT ![userIndex] = r.val], us,
                               NoError, TRUE, FALSE)

\* Admin::addCourse, lines 546-553: some user has this email.
teacherExists(us, teacherEmail) ==
    \E i \in 1..Len(us) : us[i].email = teacherEmail

\* Mutant of teacherAssigned: the scan of the courses finds nothing.
teacherAssigned_Never(cs, teacherEmail) == FALSE

\* Admin::addCourse, lines 581-589: some course has this teacher email.
teacherAssigned(cs, teacherEmail) ==
    \E i \in 1..Len(cs) : cs[i].teacherEmail = teacherEmail

\* Admin::addCourse with the name, the email, the answer to "register this
\* teacher?" and the new teacher's name and password typed. The exception
\* of the Course constructor is caught nowhere in the operation.
Admin_addCourse(cs, us, courseName, teacherEmail, addTeacher, teacherName, teacherPassword) ==
    IF ~teacherExists(us, teacherEmail) /\ addTeacher # "y"
    THEN Outcome(cs, us, Refused("Course addition canceled."), FALSE, FALSE)
    ELSE LET us2 == IF teacherExists(us, teacherEmail) THEN us
                    ELSE Append(us, NewUser("Teacher", teacherName, teacherEmail,
                                            teacherPassword))
         IN  IF teacherAssigned(cs, teacherEmail)
             THEN Outcome(cs, us2,
                          Refused("Error: Teacher is already assigned to another course."),
                          FALSE, FALSE)
             ELSE LET newCourse == Course_new(courseName, teacherEmail) IN
                  IF newCourse.err # NoError
                  THEN Outcome(cs, us2, newCourse.err, FALSE, TRUE)
                  ELSE Outcome(LMSManager_addCourse(cs, newCourse.val), us2,
                               NoError, TRUE, FALSE)

\* Admin::deleteCourse with the index typed.
Admin_deleteCourse(cs, us, index) ==
    IF Len(cs) = 0
    THEN Outcome(cs, us, Refused("There are no courses to delete."), FALSE, FALSE)
    ELSE IF index < 1 \/ index > Len(cs)
         THEN Outcome(cs, us, out_of_range("Invalid index"), FALSE, FALSE)
    ELSE LET r == LMSManager_removeCourse(cs, index - 1) IN
         IF r.err # NoError THEN Outcome(cs, us, r.err, FALSE, FALSE)
         ELSE Outcome(r.val, us, NoError, TRUE, FALSE)

\* Admin::editCourse with the course index, the y/n answer, the content
\* choice and the content line or content index typed. Only
\* InvalidCourseIndexException is caught; the ValidationException of
\* Course::addContent leaves the operation.
Admin_editCourse(cs, us, userIndex, choice, contentChoice, content, userContentIndex) ==
    IF Len(cs) = 0
    THEN Outcome(cs, us, Refused("There are no courses available."), FALSE, FALSE)
    ELSE LET systemIndex == userIndex - 1
             got == LMSManager_getCourse(cs, systemIndex)
         IN  IF got.err # NoError THEN Outcome(cs, us, got.err, FALSE, FALSE)
             ELSE IF choice # "y" THEN Outcome(cs, us, NoError, TRUE, FALSE)
             ELSE IF contentChoice = 1
                  THEN LET r == Course_addContent(got.val, content) IN
                       IF r.err # NoError THEN Outcome(cs, us, r.err, FALSE, TRUE)
                       ELSE Outcome([cs EXCEPT ![userIndex] = r.val], us,
                                    NoError, TRUE, FALSE)
             ELSE IF contentChoice = 2
                  THEN IF Len(got.val.contents) = 0
                       THEN Outcome(cs, us, NoError, TRUE, FALSE)
                       ELSE LET r == Course_removeContent(got.val, userContentIndex - 1) IN
                            IF r.err # NoError
                            THEN Outcome(cs, us, r.err, FALSE, FALSE)
                            ELSE Outcome([cs EXCEPT ![userIndex] = r.val], us,
                                         NoError, TRUE, FALSE)
             ELSE Outcome(cs, us, NoError, TRUE, FALSE)

\* ----------------------------------------------------- Teacher operations
\* The filter loop of the Teacher operations: copies of the registry's
\* courses whose teacherEmail is the caller's email, in registry order.
assignedCourses(cs, email) ==
    SelectSeq(cs, LAMBDA c : c.teacherEmail = email)

\* Mutant of Teacher_addContent: the content is added to the registry's
\* course, as through a reference, and not to the element of the copy.
Teacher_addContent_WriteThrough(cs, us, email, index, content) ==
    LET assigned == assignedCourses(cs, email) IN
    IF Len(assigned) = 0 \/ ~getValidatedIntInput(index, 1, Len(assigned))
    THEN Outcome(cs, us, Reprompt, FALSE, FALSE)
    ELSE LET r == Course_addContent(assigned[index], content) IN
         IF r.err # NoError THEN Outcome(cs, us, r.err, FALSE, FALSE)
         ELSE Outcome([i \in 1..Len(cs) |->
                          IF cs[i] = assigned[index] THEN r.val ELSE cs[i]],
                      us, NoError, TRUE, FALSE)

\* Teacher::addContent with the index and the content line typed. The
\* course it changes is an element of the local vector assignedCourses.
Teacher_addContent(cs, us, email, index, content) ==
    IF Len(cs) = 0
    THEN Outcome(cs, us, Refused("No courses available."), FALSE, FALSE)
    ELSE LET assigned == assignedCourses(cs, email) IN
         IF Len(assigned) = 0
         THEN Outcome(cs, us, Refused("You are not assigned to any courses. Cannot add content."), FALSE, FALSE)
         ELSE IF ~getValidatedIntInput(index, 1, Len(assigned))
              THEN Outcome(cs, us, Reprompt, FALSE, FALSE)
         ELSE LET r == Course_addContent(assigned[index], content) IN
              IF r.err # NoError THEN Outcome(cs, us, r.err, FALSE, FALSE)
              ELSE Outcome(cs, us, NoError, TRUE, FALSE)

\* Mutant of Teacher_addGrade: the pair is added to the registry's course,
\* as through a reference, and not to the element of the copy.
Teacher_addGrade_WriteThrough(cs, us, email, courseIndex, studentEmail, grade) ==
    LET assigned == assignedCourses(cs, email) IN
    IF Len(assigned) = 0 \/ ~getValidatedIntInput(courseIndex, 1, Len(assigned))
    THEN Outcome(cs, us, Reprompt, FALSE, FALSE)
    ELSE IF ~isValidEmail(studentEmail)
            \/ ~\E i \in 1..Len(assigned[courseIndex].enrolledStudents) :
                   assigned[courseIndex].enrolledStudents[i] = studentEmail
            \/ ~getValidatedIntInput(grade, 0, 100)
         THEN Outcome(cs, us, Reprompt, FALSE, FALSE)
    ELSE LET r == Course_addGrade(assigned[courseIndex], studentEmail, grade) IN
         Outcome([i \in 1..Len(cs) |->
                     IF cs[i] = assigned[courseIndex] THEN r.val ELSE cs[i]],
                 us, NoError, TRUE, FALSE)

\* Teacher::addGrade with the index, the email and the grade typed.
Teacher_addGrade(cs, us, email, courseIndex, studentEmail, grade) ==
    IF Len(cs) = 0
    THEN Outcome(cs, us, Refused("No courses available."), FALSE, FALSE)
    ELSE LET assigned == assignedCourses(cs, email) IN
         IF Len(assigned) = 0
         THEN Outcome(cs, us, Refused("You are not assigned to any courses. Cannot add grades."), FALSE, FALSE)
         ELSE IF ~getValidatedIntInput(courseIndex, 1, Len(assigned))
              THEN Outcome(cs, us, Reprompt, FALSE, FALSE)
         ELSE IF ~isValidEmail(studentEmail)
              THEN Outcome(cs, us, Reprompt, FALSE, FALSE)
         ELSE LET course == assigned[courseIndex] IN
              IF ~\E i \in 1..Len(course.enrolledStudents) :
                      course.enrolledStudents[i] = studentEmail
              THEN Outcome(cs, us, Refused("Student is not enrolled in this course."), FALSE, FALSE)
              ELSE IF ~getValidatedIntInput(grade, 0, 100)
                   THEN Outcome(cs, us, Reprompt, FALSE, FALSE)
              ELSE LET r == Course_addGrade(course, studentEmail, grade) IN
                   IF r.err # NoError THEN Outcome(cs, us, r.err, FALSE, FALSE)
                   ELSE Outcome(cs, us, NoError, TRUE, FALSE)

\* ----------------------------------------------------- Student operations
\* The filter loop of Student::viewGrades (and of viewEnrolledCourses):
\* copies of the courses whose enrollment holds the caller's email.
enrolledCourses(cs, email) ==
    SelectSeq(cs, LAMBDA c : \E i \in 1..Len(c.enrolledStudents) :
                                  c.enrolledStudents[i] = email)

\* The grade Student::viewGrades prints for a course: the second of the
\* first pair whose first is the caller's email, or NoGrade ("No grade
\* available for this course").
NoGrade == -1

firstGrade(course, email) ==
    IF \E i \in 1..Len(course.grades) : course.grades[i].first = email
    THEN LET k == CHOOSE i \in 1..Len(course.grades) :
                      /\ course.grades[i].first = email
                      /\ \A j \in 1..(i - 1) : course.grades[j].first # email
         IN  course.grades[k].second
    ELSE NoGrade

\* Student::viewGrades with the index typed: reads only.
Student_viewGrades(cs, us, email, index) ==
    LET enrolled == enrolledCourses(cs, email) IN
    IF Len(enrolled) = 0
    THEN Outcome(cs, us, Refused("You are not enrolled in any courses."), FALSE, FALSE)
    ELSE IF ~getValidatedIntInput(index, 0, Len(enrolled))
         THEN Outcome(cs, us, Reprompt, FALSE, FALSE)
    ELSE IF index = 0 THEN Outcome(cs, us, NoError, FALSE, FALSE)
    ELSE Outcome(cs, us, NoError, TRUE, FALSE)

\* The filter loop of Student::enrollInCourse: copies of the courses whose
\* enrollment does not hold the caller's email, in registry order.
unenrolledCourses(cs, email) ==
    SelectSeq(cs, LAMBDA c : ~\E i \in 1..Len(c.enrolledStudents) :
                                   c.enrolledStudents[i] = email)

\* Student::enrollInCourse with the index typed. No menu calls it. The
\* course it enrolls into is an element of the local vector
\* unenrolledCourses; copy is that element after the call.
Student_enrollInCourse(cs, us, email, courseIndex) ==
    LET unenrolled == unenrolledCourses(cs, email)
        out(err, done, copy) == [courses |-> cs, users |-> us, err |-> err,
                                 done |-> done, fatal |-> FALSE, copy |-> copy]
    IN  IF Len(unenrolled) = 0
        THEN out(Refused("No courses available for enrollment."), FALSE, NoCourse)
        ELSE IF ~getValidatedIntInput(courseIndex, 0, Len(unenrolled))
             THEN out(Reprompt, FALSE, NoCourse)
        ELSE IF courseIndex = 0 THEN out(NoError, FALSE, NoCourse)
        ELSE LET r == Course_enrollStudent(unenrolled[courseIndex], email) IN
             IF r.err # NoError THEN out(r.err, FALSE, r.val)
             ELSE out(NoError, TRUE, r.val)

\* ------------------------------------------------------------ the program
\* The sizes the model lets the vectors reach.
Bounded(o) ==
    /\ Len(o.courses) <= MaxCourses
    /\ Len(o.users) <= MaxUsers
    /\ \A i \in 1..Len(o.courses) :
          /\ Len(o.courses[i].contents) <= MaxContents
          /\ Len(o.courses[i].grades) <= MaxGrades

\* A role operation has run: the registry and the user list are what it
\* left, and an exception that left it uncaught reaches the catch of main(),
\* which ends the program with "Fatal error".
Apply(op, o, shown) ==
    /\ Bounded(o)
    /\ courses' = o.courses
    /\ users' = o.users
    /\ pc' = IF o.fatal THEN "fatal" ELSE pc
    /\ me' = me
    /\ last' = Last(op, o.err, o.done, shown)
    /\ typed' = typed

\* An operation that only prints: whatever is typed, it changes nothing.
View == UNCHANGED vars

\* A menu choice that only moves to another menu.
Goto(target) ==
    /\ pc' = target
    /\ last' = Last("menu", NoError, TRUE, 0)
    /\ UNCHANGED <<courses, users, me, typed>>

\* main(), lines 1284-1321: one pass of the login loop. The first user whose
\* email and password match is logged in, and the menu is that of its class.
LoginAs(email, password) ==
    /\ pc = "login"
    /\ IF email = Zero
       THEN /\ pc' = "exit"
            /\ last' = Last("login", NoError, FALSE, 0)
            /\ UNCHANGED <<courses, users, me, typed>>
       ELSE LET matches == {i \in 1..Len(users) :
                                /\ users[i].email = email
                                /\ users[i].password = password}
            IN  IF matches = {}
                THEN /\ last' = Last("login", NoError, FALSE, 0)
                     /\ UNCHANGED <<courses, users, pc, me, typed>>
                ELSE LET i == CHOOSE m \in matches : \A k \in matches : m <= k IN
                     /\ me' = i
                     /\ pc' = CASE users[i].role = "Admin" -> "admin"
                                [] users[i].role = "Teacher" -> "teacher"
                                [] OTHER -> "student"
                     /\ last' = Last("login", NoError, TRUE, 0)
                     /\ UNCHANGED <<courses, users, typed>>

Login == \E email \in EmailInputs \cup {Zero}, password \in PasswordInputs :
             LoginAs(email, password)

\* main(), lines 1323-1331: "log in as a different role?"
ChangeRole ==
    /\ pc = "changeRole"
    /\ \E changeRole \in YesNo :
          /\ pc' = IF changeRole = "n" THEN "exit" ELSE "login"
          /\ me' = 0
          /\ last' = Last("menu", NoError, TRUE, 0)
          /\ UNCHANGED <<courses, users, typed>>

\* Admin::displayMenu
AdminManageCourses == pc = "admin" /\ Goto("adminManage")

AdminLogOut == pc = "admin" /\ Goto("changeRole")

AdminViewReports == pc = "admin" /\ View

EnrollStudentStep(userIndex, studentEmail, studentPassword) ==
    /\ pc = "admin"
    /\ Apply("Admin::enrollStudent",
             Admin_enrollStudent(courses, users, userIndex, studentEmail,
                                 studentPassword), 0)

AdminEnrollStudent ==
    \E userIndex \in CourseIndexInputs, studentEmail \in StudentEmailInputs,
       studentPassword \in NewPasswordInputs :
       EnrollStudentStep(userIndex, studentEmail, studentPassword)

RemoveStudentStep(userIndex, studentEmail) ==
    /\ pc = "admin"
    /\ Apply("Admin::removeStudent",
             Admin_removeStudent(courses, users, userIndex, studentEmail), 0)

AdminRemoveStudent ==
    \E userIndex \in CourseIndexInputs, studentEmail \in StudentEmailInputs :
       RemoveStudentStep(userIndex, studentEmail)

\* Admin::manageCourses
AdminBack == pc = "adminManage" /\ Goto("admin")

AdminDisplayCourses == pc = "adminManage" /\ View

AddCourseStep(courseName, teacherEmail, addTeacher, teacherName, teacherPassword) ==
    /\ pc = "adminManage"
    /\ Apply("Admin::addCourse",
             Admin_addCourse(courses, users, courseName, teacherEmail,
                             addTeacher, teacherName, teacherPassword), 0)

AdminAddCourse ==
    \E courseName \in NameInputs, teacherEmail \in EmailInputs,
       addTeacher \in YesNo, teacherPassword \in NewPasswordInputs :
       AddCourseStep(courseName, teacherEmail, addTeacher, NewTeacher,
                     teacherPassword)

DeleteCourseStep(index) ==
    /\ pc = "adminManage"
    /\ Apply("Admin::deleteCourse", Admin_deleteCourse(courses, users, index), 0)

AdminDeleteCourse == \E index \in CourseIndexInputs : DeleteCourseStep(index)

EditCourseStep(userIndex, choice, contentChoice, content, userContentIndex) ==
    /\ pc = "adminManage"
    /\ Apply("Admin::editCourse",
             Admin_editCourse(courses, users, userIndex, choice, contentChoice,
                              content, userContentIndex), 0)

\* The content line is read only after choice 1 and the content index only
\* after choice 2.
AdminEditCourse ==
    \E userIndex \in CourseIndexInputs :
       \/ EditCourseStep(userIndex, "n", 0, <<>>, 0)
       \/ \E content \in ContentInputs :
             EditCourseStep(userIndex, "y", 1, content, 0)
       \/ \E userContentIndex \in ContentIndexInputs :
             EditCourseStep(userIndex, "y", 2, <<>>, userContentIndex)
       \/ EditCourseStep(userIndex, "y", 3, <<>>, 0)

\* Teacher::displayMenu and Teacher::manageCourses
TeacherManageCourses == pc = "teacher" /\ Goto("teacherManage")

TeacherLogOut == pc = "teacher" /\ Goto("changeRole")

TeacherBack == pc = "teacherManage" /\ Goto("teacher")

TeacherViewReports == pc = "teacher" /\ View

TeacherViewCourse == pc = "teacherManage" /\ View

AddContentStep(index, content) ==
    /\ pc = "teacherManage"
    /\ Apply("Teacher::addContent",
             Teacher_addContent(courses, users, users[me].email, index, content), 0)

TeacherAddContent ==
    \E index \in CourseIndexInputs, content \in ContentInputs :
       AddContentStep(index, content)

AddGradeStep(courseIndex, studentEmail, grade) ==
    /\ pc = "teacherManage"
    /\ Apply("Teacher::addGrade",
             Teacher_addGrade(courses, users, users[me].email, courseIndex,
                              studentEmail, grade), 0)

TeacherAddGrade ==
    \E courseIndex \in CourseIndexInputs, studentEmail \in StudentEmailInputs,
       grade \in TypedGrades :
       AddGradeStep(courseIndex, studentEmail, grade)

TeacherViewAssignedStudents == pc = "teacherManage" /\ View

\* Student::displayMenu
StudentLogOut == pc = "student" /\ Goto("changeRole")

StudentViewEnrolledCourses == pc = "student" /\ View

ViewGradesStep(index) ==
    /\ pc = "student"
    /\ LET o == Student_viewGrades(courses, users, users[me].email, index) IN
       Apply("Student::viewGrades", o,
             IF o.done
             THEN firstGrade(enrolledCourses(courses, users[me].email)[index],
                             users[me].email)
             ELSE 0)

StudentViewGrades == \E index \in CourseIndexInputs : ViewGradesStep(index)

Next ==
    \/ Login
    \/ ChangeRole
    \/ AdminManageCourses
    \/ AdminLogOut
    \/ AdminViewReports
    \/ AdminEnrollStudent
    \/ AdminRemoveStudent
    \/ AdminBack
    \/ AdminDisplayCourses
    \/ AdminAddCourse
    \/ AdminDeleteCourse
    \/ AdminEditCourse
    \/ TeacherManageCourses
    \/ TeacherLogOut
    \/ TeacherBack
    \/ TeacherViewReports
    \/ TeacherViewCourse
    \/ TeacherAddContent
    \/ TeacherAddGrade
    \/ TeacherViewAssignedStudents
    \/ StudentLogOut
    \/ StudentViewEnrolledCourses
    \/ StudentViewGrades

Spec == Init /\ [][Next]_vars

\* ------------------------------------------- the Course entity, called directly
\* The operations of Course applied to the registry's courses with any
\* argument, as a caller of the entity layer may apply them. Each
\* specification below exercises one member vector of Course.
EntityEmails == {studentEmailA, studentEmailB, teacher1Email, notAnEmail}
GradeEmails == {studentEmailA, notAnEmail}

\* A method of the course at a valid registry index has run: the course is
\* what the method left (the reference returned by getCourse is written
\* through), last holds the exception.
CourseCall(op, index, r) ==
    /\ courses' = [courses EXCEPT ![index + 1] = r.val]
    /\ Len(r.val.contents) <= MaxContents
    /\ Len(r.val.grades) <= MaxGrades
    /\ last' = Last(op, r.err, r.err = NoError, 0)
    /\ UNCHANGED <<users, pc, me, typed>>

EnrollCall(index, studentEmail) ==
    LET got == LMSManager_getCourse(courses, index) IN
    /\ got.err = NoError
    /\ CourseCall("Course::enrollStudent", index,
                  Course_enrollStudent(got.val, studentEmail))

RemoveCall(index, studentEmail) ==
    LET got == LMSManager_getCourse(courses, index) IN
    /\ got.err = NoError
    /\ CourseCall("Course::removeStudent", index,
                  Course_removeStudent(got.val, studentEmail))

AddGradeCall(index, studentEmail, grade) ==
    LET got == LMSManager_getCourse(courses, index) IN
    /\ got.err = NoError
    /\ CourseCall("Course::addGrade", index,
                  Course_addGrade(got.val, studentEmail, grade))

AddContentCall(index, content) ==
    LET got == LMSManager_getCourse(courses, index) IN
    /\ got.err = NoError
    /\ CourseCall("Course::addContent", index,
                  Course_addContent(got.val, content))

RemoveContentCall(index, contentIndex) ==
    LET got == LMSManager_getCourse(courses, index) IN
    /\ got.err = NoError
    /\ CourseCall("Course::removeContent", index,
                  Course_removeContent(got.val, contentIndex))

CourseEnrollStudent ==
    \E index \in 0..(Len(courses) - 1), studentEmail \in EntityEmails :
       EnrollCall(index, studentEmail)

CourseRemoveStudent ==
    \E index \in 0..(Len(courses) - 1), studentEmail \in EntityEmails :
       RemoveCall(index, studentEmail)

CourseAddGrade ==
    \E index \in 0..(Len(courses) - 1), studentEmail \in GradeEmails,
       grade \in GradeInputs :
       AddGradeCall(index, studentEmail, grade)

CourseAddContent ==
    \E index \in 0..(Len(courses) - 1), content \in ContentInputs :
       AddContentCall(index, content)

CourseRemoveContent ==
    \E index \in 0..(Len(courses) - 1), contentIndex \in -1..(MaxContents + 1) :
       RemoveContentCall(index, contentIndex)

EnrollmentNext == CourseEnrollStudent \/ CourseRemoveStudent

SpecEnrollment == Init /\ [][EnrollmentNext]_vars

GradesNext == CourseAddGrade

SpecGrades == Init /\ [][GradesNext]_vars

ContentsNext == CourseAddContent \/ CourseRemoveContent

SpecContents == Init /\ [][ContentsNext]_vars

\* ------------------------------------------- Student::enrollInCourse, called directly
\* Student::displayMenu has no entry for enrollInCourse. Here the member
\* function is called for the logged-in student, between the operations
\* that create students and log them in.
SelfEnrollStep(courseIndex) ==
    /\ pc = "student"
    /\ Apply("Student::enrollInCourse",
             Student_enrollInCourse(courses, users, users[me].email, courseIndex), 0)

StudentEnrollInCourse ==
    \E courseIndex \in CourseIndexInputs : SelfEnrollStep(courseIndex)

SelfEnrollNext ==
    \/ Login
    \/ ChangeRole
    \/ AdminLogOut
    \/ AdminEnrollStudent
    \/ AdminRemoveStudent
    \/ AdminManageCourses
    \/ AdminDeleteCourse
    \/ AdminBack
    \/ TeacherLogOut
    \/ StudentLogOut
    \/ StudentEnrollInCourse

SpecSelfEnroll == Init /\ [][SelfEnrollNext]_vars

\* ------------------------------------------ Validator::isValidEmail, called directly
\* The characters of the strings handed to the function, and their length.
Alphabet == {"a", "b", "@", "."}
EmailStrings == UNION {[1..n -> Alphabet] : n \in 0..MaxEmailLen}

EmailInit ==
    /\ courses = SeedCourses
    /\ users = SeedUsers
    /\ pc = "login"
    /\ me = 0
    /\ last = Last("main", NoError, TRUE, 0)
    /\ typed \in EmailStrings

\* Validator::isValidEmail(typed) has returned: done holds what it returned.
ValidateEmail ==
    /\ last.op = "main"
    /\ last' = Last("Validator::isValidEmail", NoError, isValidEmail(typed), 0)
    /\ UNCHANGED <<courses, users, pc, me, typed>>

SpecEmail == EmailInit /\ [][ValidateEmail]_vars

\* ------------------------------------------------------------------ claims
Range(seq) == {seq[i] : i \in 1..Len(seq)}

NoDuplicates(seq) ==
    \A i, j \in 1..Len(seq) : i # j => seq[i] # seq[j]

\* C1: in every state reachable through the role operations no course of
\* the registry has the same email twice in enrolledStudents, and one more
\* Course::enrollStudent on any such course, with any email, keeps it so.
C1_NoDuplicateEnrollment ==
    \A i \in 1..Len(courses) :
       /\ NoDuplicates(courses[i].enrolledStudents)
       /\ \A e \in EmailInputs :
             NoDuplicates(Course_enrollStudent(courses[i], e).val.enrolledStudents)

\* Admin::enrollStudent has enrolled a student in a course.
C1_Witness ==
    /\ last.op = "Admin::enrollStudent"
    /\ last.done
    /\ \E i \in 1..Len(courses) : Len(courses[i].enrolledStudents) >= 1

\* C2: for every course and every valid email e, Course::enrollStudent(e)
\* succeeds and appends e when e is not enrolled; when e is enrolled, and so
\* on a second enrollStudent(e), it fails with ValidationError and the
\* enrollment sequence is what it was.
C2_EnrollTwice ==
    \A i \in 1..Len(courses), e \in EntityEmails :
       LET c == courses[i]
           before == c.enrolledStudents
           r1 == Course_enrollStudent(c, e)
           r2 == Course_enrollStudent(r1.val, e)
       IN  isValidEmail(e) =>
              IF e \in Range(before)
              THEN /\ r1.err.kind = "ValidationError"
                   /\ r1.val.enrolledStudents = before
              ELSE /\ r1.err = NoError
                   /\ r1.val.enrolledStudents = Append(before, e)
                   /\ r2.err.kind = "ValidationError"
                   /\ r2.val.enrolledStudents = Append(before, e)

\* Course::enrollStudent was called for an email already enrolled.
C2_Witness ==
    /\ last.op = "Course::enrollStudent"
    /\ last.err.what = "Student already enrolled"

\* C3: for every course, Course::removeStudent(e) of an email that is not
\* enrolled fails with ValidationError and leaves the course as it was; of
\* an enrolled email it removes e and keeps the other emails in order.
C3_RemoveStudent ==
    \A i \in 1..Len(courses), e \in EntityEmails :
       LET c == courses[i]
           before == c.enrolledStudents
           r == Course_removeStudent(c, e)
       IN  IF e \notin Range(before)
           THEN /\ r.err.kind = "ValidationError"
                /\ r.val = c
           ELSE /\ r.err = NoError
                /\ r.val = [c EXCEPT !.enrolledStudents =
                               SelectSeq(before, LAMBDA x : x # e)]

\* Course::removeStudent has removed one of three enrolled emails.
C3_Witness ==
    /\ last.op = "Course::removeStudent"
    /\ last.done
    /\ \E i \in 1..Len(courses) : Len(courses[i].enrolledStudents) = 2

\* C4: Course::addGrade(email, g) fails with ValidationError and leaves the
\* course as it was when g is outside 0..100 or email is malformed;
\* otherwise it appends the one pair (email, g), keeps every earlier pair,
\* also one of the same email, and does not ask that email be enrolled.
C4_AddGrade ==
    \A i \in 1..Len(courses), e \in GradeEmails, g \in GradeInputs :
       LET c == courses[i]
           r == Course_addGrade(c, e, g)
       IN  IF g \notin 0..100 \/ ~isValidEmail(e)
           THEN /\ r.err.kind = "ValidationError"
                /\ r.val = c
           ELSE /\ r.err = NoError
                /\ r.val = [c EXCEPT !.grades =
                               c.grades \o << [first |-> e, second |-> g] >>]
                /\ e \notin Range(c.enrolledStudents)

\* Course::addGrade has added a second pair for the same email.
C4_Witness ==
    /\ last.op = "Course::addGrade"
    /\ last.done
    /\ \E i \in 1..Len(courses) :
          /\ Len(courses[i].grades) = 2
          /\ courses[i].grades[1].first = courses[i].grades[2].first

\* C5: for every course with n contents, Course::removeContent(k) with
\* k < 0 or k >= n fails with IndexError and leaves the course as it was;
\* with 0 <= k < n it removes the item at position k and moves each later
\* item down by one.
C5_RemoveContent ==
    \A i \in 1..Len(courses), k \in -1..(MaxContents + 1) :
       LET c == courses[i]
           n == Len(c.contents)
           r == Course_removeContent(c, k)
       IN  IF k < 0 \/ k >= n
           THEN /\ r.err.kind = "IndexError"
                /\ r.val = c
           ELSE /\ r.err = NoError
                /\ Len(r.val.contents) = n - 1
                /\ \A j \in 1..(n - 1) :
                      r.val.contents[j] =
                         IF j <= k THEN c.contents[j] ELSE c.contents[j + 1]
                /\ r.val = [c EXCEPT !.contents = r.val.contents]

\* Course::removeContent was called with an index out of range.
C5_Witness ==
    /\ last.op = "Course::removeContent"
    /\ last.err.kind = "IndexError"

CourseNames(cs) == [i \in 1..Len(cs) |-> cs[i].courseName]

\* Course indices outside [0, n) for the registry of the current state.
BadSystemIndices == {-1, Len(courses), Len(courses) + 1}

\* Typed (1-based) course indices that name no course of the registry.
BadUserIndices == {k \in -1..(MaxCourses + 2) : k < 1 \/ k > Len(courses)}

\* C6: a Course whose name or teacher email fails its validator is not
\* constructed (ValidationError), "not-an-email" being such an email; an
\* Admin::addCourse with such a name or email leaves the course sequence
\* as it was, by that ValidationError when it reaches the constructor; an
\* Admin::addCourse that succeeds appends one course whose contents,
\* enrollment and grades are empty.
C6_AddCourseValidation ==
    /\ Course_new(Chemistry, notAnEmail).err.kind = "ValidationError"
    /\ \A name \in NameInputs, email \in EmailInputs, y \in YesNo :
          LET bad == Len(name) = 0 \/ Len(name) > 100 \/ ~isValidEmail(email)
              reached == /\ (\E i \in 1..Len(users) : users[i].email = email) \/ y = "y"
                         /\ \A i \in 1..Len(courses) : courses[i].teacherEmail # email
              made == Course_new(name, email)
              o == Admin_addCourse(courses, users, name, email, y, NewTeacher, "pw")
          IN  /\ bad => /\ made.err.kind = "ValidationError"
                        /\ o.courses = courses
                        /\ ~o.done
                        /\ reached => o.err.kind = "ValidationError"
              /\ (~bad /\ reached) =>
                    /\ o.err = NoError
                    /\ o.done
                    /\ o.courses = Append(courses,
                          [courseName |-> name, teacherEmail |-> email,
                           contents |-> <<>>, grades |-> <<>>,
                           enrolledStudents |-> <<>>])

\* Admin::addCourse reached the constructor with a malformed teacher email.
C6_Witness ==
    /\ last.op = "Admin::addCourse"
    /\ last.err = ValidationException("Invalid teacher email")

C8_OneCoursePerTeacher ==
    /\ \A i, j \in 1..Len(courses) :
          i # j => courses[i].teacherEmail # courses[j].teacherEmail
    /\ \A name \in NameInputs, email \in EmailInputs, y \in YesNo :
          LET o == Admin_addCourse(courses, users, name, email, y, NewTeacher, "pw")
          IN  /\ (\E i \in 1..Len(courses) : courses[i].teacherEmail = email) =>
                    /\ o.courses = courses
                    /\ ~o.done
              /\ \A i, j \in 1..Len(o.courses) :
                    i # j => o.courses[i].teacherEmail # o.courses[j].teacherEmail

\* Admin::addCourse refused a teacher who has a course.
C8_Witness ==
    /\ last.op = "Admin::addCourse"
    /\ last.err = Refused("Error: Teacher is already assigned to another course.")

\* C9: no two entries of the user list have the same email, and neither
\* Admin::addCourse nor Admin::enrollStudent, whatever is typed, adds a
\* user whose email an existing user has.
C9_UniqueUserEmail ==
    /\ \A i, j \in 1..Len(users) : i # j => users[i].email # users[j].email
    /\ \A email \in EmailInputs :
          LET taken == \E i \in 1..Len(users) : users[i].email = email
              fresh(us) == /\ Len(us) <= Len(users) + 1
                           /\ SubSeq(us, 1, Len(users)) = users
                           /\ taken => us = users
                           /\ Len(us) = Len(users) + 1 => us[Len(us)].email = email
          IN  /\ \A name \in NameInputs, y \in YesNo :
                    fresh(Admin_addCourse(courses, users, name, email, y,
                                          NewTeacher, "pw").users)
              /\ \A k \in CourseIndexInputs :
                    fresh(Admin_enrollStudent(courses, users, k, email, "pw").users)

\* Admin::enrollStudent has created a Student user.
C9_Witness ==
    /\ last.op = "Admin::enrollStudent"
    /\ last.done
    /\ Len(users) > Len(SeedUsers)
    /\ \E i \in 1..Len(users) : users[i].role = "Student"

\* C10: for every index i outside [0, n), n the number of courses,
\* LMSManager::getCourse(i) and LMSManager::removeCourse(i) fail with
\* IndexError and the registry is as it was; Admin::deleteCourse,
\* Admin::editCourse, Admin::enrollStudent and Admin::removeStudent given a
\* course index that names no course leave the courses and the users as
\* they were.
C10_OutOfRangeIndex ==
    /\ \A i \in BadSystemIndices :
          /\ LMSManager_getCourse(courses, i).err.kind = "IndexError"
          /\ LMSManager_removeCourse(courses, i).err.kind = "IndexError"
          /\ LMSManager_removeCourse(courses, i).val = courses
    /\ \A k \in BadUserIndices :
          LET same(o) == o.courses = courses /\ o.users = users /\ ~o.done
          IN  /\ same(Admin_deleteCourse(courses, users, k))
              /\ \A y \in YesNo, choice \in 1..2, ci \in {0, 1} :
                    same(Admin_editCourse(courses, users, k, y, choice, Quiz, ci))
              /\ \A email \in EmailInputs :
                    /\ same(Admin_enrollStudent(courses, users, k, email, "pw"))
                    /\ same(Admin_removeStudent(courses, users, k, email))

\* Admin::removeStudent was given a course index that names no course.
C10_Witness ==
    /\ last.op = "Admin::removeStudent"
    /\ last.err.kind = "IndexError"
    /\ Len(courses) >= 1

\* C11: Validator::isValidEmail(e) is true if and only if the first '@' of
\* e is not the first character of e, the last '.' of e comes after that
\* '@', and that '.' is not the last character of e.
C11_FirstAtLastDot ==
    LET e == typed
        expected ==
            \E i, k \in 1..Len(e) :
               /\ e[i] = "@" /\ \A j \in 1..(i - 1) : e[j] # "@"
               /\ e[k] = "." /\ \A m \in (k + 1)..Len(e) : e[m] # "."
               /\ i > 1
               /\ i < k
               /\ k < Len(e)
    IN  /\ isValidEmail(e) <=> expected
        /\ last.op = "Validator::isValidEmail" => (last.done <=> expected)

\* Validator::isValidEmail has rejected "@a@b.a": a later '@' is at a
\* position greater than 0 and is followed by a '.' with a character after it.
C11_Witness ==
    /\ last.op = "Validator::isValidEmail"
    /\ typed = <<"@", "a", "@", "b", ".", "a">>
    /\ ~last.done

\* C11 as stated: isValidEmail(e) is true if and only if some '@' of e at a
\* position greater than 0 is followed later by some '.' that has at least
\* one character after it.
C11_AnyAtAnyDot ==
    last.op = "Validator::isValidEmail" =>
       (last.done <=>
           \E i, k \in 1..Len(typed) :
              /\ typed[i] = "@" /\ i > 1
              /\ typed[k] = "." /\ i < k /\ k < Len(typed))

\* C12 as stated: no sequence of role operations ends the session with a
\* fatal error; an operation in which a ValidationError or an IndexError
\* was raised leaves main() in a menu loop.
C12_NoFatalError ==
    /\ pc # "fatal"
    /\ last.err.kind \in {"ValidationError", "IndexError"} =>
          pc \in {"admin", "adminManage", "teacher", "teacherManage", "student"}

\* C13 as stated: Admin::enrollStudent with a valid course index and a
\* valid email e enrolls e in that course: when no user has email e, a
\* Student user with email e is created and e is appended to the course's
\* enrollment; when a Student user with email e exists and e is not
\* enrolled in that course, e is appended and no user is created.
C13_EnrollNewOrExisting ==
    \A k \in 1..Len(courses), e \in StudentEmailInputs :
       LET o == Admin_enrollStudent(courses, users, k, e, "pw")
           before == courses[k].enrolledStudents
           isUser == \E i \in 1..Len(users) : users[i].email = e
           isStudent == \E i \in 1..Len(users) :
                           users[i].email = e /\ users[i].role = "Student"
       IN  isValidEmail(e) =>
              /\ ~isUser =>
                    /\ Len(o.users) = Len(users) + 1
                    /\ o.users[Len(o.users)].email = e
                    /\ o.users[Len(o.users)].role = "Student"
                    /\ o.courses[k].enrolledStudents = Append(before, e)
              /\ (isStudent /\ e \notin Range(before)) =>
                    /\ o.users = users
                    /\ o.courses[k].enrolledStudents = Append(before, e)

\* C14 as stated: every course's teacherEmail is the email of a user of
\* role Teacher.
C14_TeacherIsTeacherUser ==
    \A i \in 1..Len(courses) :
       \E j \in 1..Len(users) :
          /\ users[j].email = courses[i].teacherEmail
          /\ users[j].role = "Teacher"

\* C15 as stated: every user of the user list has an email that satisfies
\* isValidEmail.
C15_UserEmailsValid ==
    \A i \in 1..Len(users) : isValidEmail(users[i].email)

Count(seq, x) == Cardinality({i \in 1..Len(seq) : seq[i] = x})

\* C16 as stated: when the logged-in student enrolls self into an offered
\* course, the operation succeeds and afterwards that course of the
\* registry holds the student's email exactly once; no offered course has
\* the student's email in its enrollment.
C16_SelfEnrollReachesRegistry ==
    pc = "student" =>
       LET email == users[me].email
           offered == unenrolledCourses(courses, email)
       IN  /\ \A k \in 1..Len(offered) : Count(offered[k].enrolledStudents, email) = 0
           /\ \A k \in 1..Len(offered) :
                 LET o == Student_enrollInCourse(courses, users, email, k) IN
                 /\ o.done
                 /\ \E i \in 1..Len(courses) :
                       /\ courses[i] = offered[k]
                       /\ Count(o.courses[i].enrolledStudents, email) = 1

\* C17: for every Teacher user and everything typed, Teacher::addContent
\* and Teacher::addGrade leave every course of the registry as it was (its
\* contents, enrollment and grades), also when they report success, while
\* Admin::editCourse adding a valid content to course k appends it to the
\* contents of the registry's course k and leaves the other courses alone.
C17_CopyVersusReference ==
    /\ \A j \in 1..Len(users) :
          users[j].role = "Teacher" =>
             /\ \A index \in CourseIndexInputs, content \in ContentInputs :
                   Teacher_addContent(courses, users, users[j].email,
                                      index, content).courses = courses
             /\ \A index \in CourseIndexInputs, e \in StudentEmailInputs,
                   g \in TypedGrades :
                   Teacher_addGrade(courses, users, users[j].email,
                                    index, e, g).courses = courses
    /\ \A k \in 1..Len(courses) :
          LET o == Admin_editCourse(courses, users, k, "y", 1, Quiz, 0) IN
          /\ o.done
          /\ o.courses = [courses EXCEPT ![k].contents = Append(@, Quiz)]
          /\ o.courses # courses
    /\ last.op \in {"Teacher::addContent", "Teacher::addGrade"} =>
          \A i \in 1..Len(courses) : courses[i].grades = <<>>

\* Teacher::addGrade has reported a grade as added, and no course of the
\* registry has a grade.
C17_Witness ==
    /\ last.op = "Teacher::addGrade"
    /\ last.done
    /\ \A i \in 1..Len(courses) : courses[i].grades = <<>>

\* C18: every course of the registry has an empty grade sequence, so for
\* every Student user and every course the student is enrolled in,
\* Student::viewGrades finds no grade ("No grade available for this
\* course"), and that is what it has shown whenever it has run to its end.
C18_RegistryGradesEmpty ==
    /\ \A i \in 1..Len(courses) : courses[i].grades = <<>>
    /\ \A j \in 1..Len(users) :
          users[j].role = "Student" =>
             LET enrolled == enrolledCourses(courses, users[j].email) IN
             \A k \in 1..Len(enrolled) :
                /\ Student_viewGrades(courses, users, users[j].email, k).done
                /\ firstGrade(enrolled[k], users[j].email) = NoGrade
    /\ (last.op = "Student::viewGrades" /\ last.done) => last.shown = NoGrade

\* Student::viewGrades has shown an enrolled student that no grade is
\* available.
C18_Witness ==
    /\ last.op = "Student::viewGrades"
    /\ last.done
    /\ last.shown = NoGrade
    /\ pc = "student"
    /\ Len(enrolledCourses(courses, users[me].email)) >= 1

\* The registry courses whose enrollment holds the email.
CoursesOf(cs, e) == {i \in 1..Len(cs) : e \in Range(cs[i].enrolledStudents)}

IsPrefix(s, t) == Len(s) <= Len(t) /\ SubSeq(t, 1, Len(s)) = s

\* C19: each email is in the enrollment of at most one course of the
\* registry, and Admin::enrollStudent, given the email of an existing user
\* with any course index, leaves every course as it was, also when that
\* user is in no course any more.
C19_OneCoursePerEmail ==
    /\ \A e \in EmailInputs : Cardinality(CoursesOf(courses, e)) <= 1
    /\ \A e \in EmailInputs, k \in CourseIndexInputs :
          LET o == Admin_enrollStudent(courses, users, k, e, "pw") IN
          /\ (\E j \in 1..Len(users) : users[j].email = e) =>
                o.courses = courses /\ ~o.done
          /\ Cardinality(CoursesOf(o.courses, e)) <= 1

\* Admin::enrollStudent has refused a Student user who is in no course.
C19_Witness ==
    /\ last.op = "Admin::enrollStudent"
    /\ last.err = Refused("Student with this email already exists. Cannot create a duplicate account.")
    /\ \E j \in 1..Len(users) :
          /\ users[j].role = "Student"
          /\ CoursesOf(courses, users[j].email) = {}

\* C20: every email in the enrollment of a course of the registry is the
\* email of a user of role Student; the user list only grows at its end:
\* the seed users stay, Admin::deleteCourse and Admin::removeStudent leave
\* it as it was, and Admin::addCourse and Admin::enrollStudent keep every
\* user it holds.
C20_EnrolledAreStudentUsers ==
    /\ \A i \in 1..Len(courses) :
          \A e \in Range(courses[i].enrolledStudents) :
             \E j \in 1..Len(users) :
                users[j].email = e /\ users[j].role = "Student"
    /\ IsPrefix(SeedUsers, users)
    /\ \A k \in CourseIndexInputs :
          /\ Admin_deleteCourse(courses, users, k).users = users
          /\ \A e \in StudentEmailInputs :
                /\ Admin_removeStudent(courses, users, k, e).users = users
                /\ IsPrefix(users, Admin_enrollStudent(courses, users, k, e, "pw").users)
    /\ \A name \in NameInputs, e \in EmailInputs, y \in YesNo :
          IsPrefix(users, Admin_addCourse(courses, users, name, e, y,
                                          NewTeacher, "pw").users)

\* Admin::removeStudent has removed the only student of a course, and the
\* student's user record is in the user list.
C20_Witness ==
    /\ last.op = "Admin::removeStudent"
    /\ last.done
    /\ \E j \in 1..Len(users) :
          /\ users[j].role = "Student"
          /\ CoursesOf(courses, users[j].email) = {}

====
